---- MODULE Spec2Model ----
(***************************************************************************)
(* Model of the request admission and scheduling core of Mikaz             *)
(* (src/src/request_queue.py): RequestQueue.add_request, the background    *)
(* _worker loop and stop(), run by a single asyncio event loop.            *)
(*                                                                         *)
(* A coroutine runs from one suspension point to the next as one step.     *)
(* Steps that the program schedules itself (the first step of a new worker *)
(* task, the wake-up of the worker by queue.put or by cancel(), the        *)
(* wake-up of stop() by the end of the worker task) run in the FIFO order  *)
(* of the event loop's ready list.  Steps triggered by the completion of   *)
(* external I/O (a new Discord message, the reply to the owner lookup, the *)
(* end of the processing callback) happen at an arbitrary time.            *)
(* Time is counted in tenths of a second.                                  *)
(*                                                                         *)
(* The second part models the conversation memory                          *)
(* (src/src/memory_store.py): MemoryStore with its cache, its cached token *)
(* totals and the JSON file it is loaded from and saved to.                *)
(***************************************************************************)
EXTENDS Integers, Sequences, FiniteSets, Bags, TLC

\* ---------------------------------------------------------------- bounds
NumUsers == 2
MaxRequests == 3
MaxPending == 1
MaxStops == 1
StartTime == 100
\* the caps of the memory store, scaled down from 50 entries and 2000
\* tokens (memory_store.py:11)
MEMORY_MAX_PER_USER == 3
MEMORY_MAX_TOKENS == 10
\* the saves that fail in a row
MaxFailedSaves == 1

\* ------------------------------------------------------ program constants
\* 5.0 second cooldown (request_queue.py:90), in tenths of a second
Cooldown == 50
\* the bot owner (the one user for whom bot.is_owner can answer True)
Owner == 1

Users == 1..NumUsers
\* the instants at which the clock is read, as tenths of a second elapsed
Elapsed == {0, 10, 50}
TimePoints == {StartTime + d : d \in Elapsed}
NoTask == 0

VARIABLES
    clock,              \* time.time(), in tenths of a second
    queue,              \* self._queue: the heap list of the PriorityQueue
    queue_init,         \* self._queue is not None
    processing_users,   \* self._processing_users
    user_last_request,  \* self._user_last_request (a dict)
    worker_task,        \* self._worker_task: index into tasks, NoTask = None
    tasks,              \* every worker task ever created
    pending,            \* the add_request calls suspended in the owner lookup
    stops,              \* every stop() call ever made
    ready,              \* the event loop's FIFO of the steps the program scheduled
    ret,                \* what the add_request that returned in this step returned
    nput,               \* the number of requests put on the queue so far
    granted,            \* <<user, time>> of the accepted requests of the users
                        \* that are never privileged
    started,            \* request ids in the order the callback was started
    cache,              \* MemoryStore._cache: user id -> deque of messages
    token_cnt,          \* MemoryStore._token_cnt: user id -> cached token total
    file,               \* the file at MemoryStore.path
    last_op,            \* the last operation on the memory store: its arguments,
                        \* the store and the file it found, the entries it
                        \* evicted, whether its save succeeded, the saves
                        \* failed in a row
    dispatch            \* the process_ai_request call the worker is running:
                        \* its position, its request and the prompt it built

queue_vars == <<clock, queue, queue_init, processing_users, user_last_request,
                worker_task, tasks, pending, stops, ready, ret, nput, granted,
                started>>
memory_vars == <<cache, token_cnt, file, last_op, dispatch>>
vars == <<queue_vars, memory_vars>>

\* ---------------------------------------------------------- QueuedRequest
QueuedRequest(id, user_id, is_owner, timestamp) ==
    [id |-> id, user_id |-> user_id, is_owner |-> is_owner,
     timestamp |-> timestamp]

\* mutant of Lt: the priority class is not compared
Lt_TimestampOnly(a, b) == a.timestamp < b.timestamp

\* QueuedRequest.__lt__
Lt(a, b) ==
    IF a.is_owner # b.is_owner
    THEN a.is_owner
    ELSE a.timestamp < b.timestamp

\* ------------------------------------------------------------------ heapq
\* Positions are 1-based here: the parent of position p is p \div 2 and its
\* children are 2p and 2p+1 (0-based: (pos-1)>>1, 2pos+1, 2pos+2).
RECURSIVE SiftDownLoop(_, _, _, _)
SiftDownLoop(heap, startpos, pos, newitem) ==
    IF pos > startpos /\ Lt(newitem, heap[pos \div 2])
    THEN SiftDownLoop([heap EXCEPT ![pos] = heap[pos \div 2]],
                      startpos, pos \div 2, newitem)
    ELSE [heap EXCEPT ![pos] = newitem]

\* heapq._siftdown(heap, startpos, pos)
SiftDown(heap, startpos, pos) == SiftDownLoop(heap, startpos, pos, heap[pos])

RECURSIVE SiftUpLoop(_, _, _, _)
SiftUpLoop(heap, startpos, pos, newitem) ==
    LET endpos   == Len(heap)
        childpos == 2 * pos
        rightpos == childpos + 1
        pick     == IF rightpos <= endpos
                       /\ ~Lt(heap[childpos], heap[rightpos])
                    THEN rightpos ELSE childpos
    IN  IF childpos <= endpos
        THEN SiftUpLoop([heap EXCEPT ![pos] = heap[pick]],
                        startpos, pick, newitem)
        ELSE SiftDown([heap EXCEPT ![pos] = newitem], startpos, pos)

\* heapq._siftup(heap, pos)
SiftUp(heap, pos) == SiftUpLoop(heap, pos, pos, heap[pos])

\* heapq.heappush(heap, item)  (PriorityQueue._put)
HeapPush(heap, item) ==
    LET h == Append(heap, item) IN SiftDown(h, 1, Len(h))

\* the item heapq.heappop(heap) returns  (PriorityQueue._get)
HeapTop(heap) == heap[1]

\* the heap heapq.heappop(heap) leaves
HeapPop(heap) ==
    LET lastelt == heap[Len(heap)]
        rest    == SubSeq(heap, 1, Len(heap) - 1)
    IN  IF rest = <<>> THEN rest
        ELSE SiftUp([rest EXCEPT ![1] = lastelt], 1)

\* ---------------------------------------------------------------- helpers
InReady(h) == \E i \in 1..Len(ready) : ready[i] = h

\* self._user_last_request.get(user_id, 0)
LastRequest(u) ==
    IF u \in DOMAIN user_last_request THEN user_last_request[u] ELSE 0

\* the answers self.is_owner(user) can give: bot.is_owner(user), or False
\* when that lookup raises
OwnerAnswers(u) == IF u = Owner THEN {TRUE, FALSE} ELSE {FALSE}

\* mutant of WorkerDone: the test of done() is inverted
WorkerDone_Inverted ==
    worker_task = NoTask \/ tasks[worker_task].pc # "done"

\* (fault) done() is not consulted: a worker is started only when none
\* was ever created
WorkerDone_NoneOnly ==
    worker_task = NoTask

\* add_request: `self._worker_task is None or self._worker_task.done()`
WorkerDone ==
    worker_task = NoTask \/ tasks[worker_task].pc = "done"

\* stop: `self._worker_task and not self._worker_task.done()`
WorkerRunning ==
    worker_task # NoTask /\ tasks[worker_task].pc # "done"

\* no request held by a worker
NoRequest == [id |-> 0, user_id |-> 0, is_owner |-> FALSE, timestamp |-> 0]

\* a worker task just created; recovered tells how the request the worker
\* finished last ended: "none", "error" (the callback raised and the error
\* was reported) or "fault" (the loop caught another exception and slept)
NewTask == [pc |-> "new", req |-> NoRequest, must_cancel |-> FALSE,
            recovered |-> "none"]

\* no add_request returned in this step
NoRet == [user_id |-> 0, timestamp |-> 0, is_owner |-> FALSE,
          result |-> "none", remaining |-> 0]

\* a suspended add_request call: its message author and its current_time
Call(u, t) == [user_id |-> u, timestamp |-> t]

\* --------------------------------------------------------------- Init
\* ------------------------------------------------------------ MemoryStore
\* the message texts and the number of tokens TOKENIZER.encode gives each
Texts == {"s", "m", "x"}
TokenLen(text) ==
    CASE text = "s" -> 1
      [] text = "m" -> 4
      [] text = "x" -> 11

\* the messages a caller passes to add_message
Messages == [role : {"user"}, content : Texts]

\* no message: the operation was not an add_message
NoMsg == [role |-> "", content |-> ""]

\* the sum of len(TOKENIZER.encode(m["content"])) over the entries of d
RECURSIVE SumTokens(_)
SumTokens(d) ==
    IF d = <<>> THEN 0 ELSE TokenLen(Head(d).content) + SumTokens(Tail(d))

\* str(k) of a user id, as its sequence of decimal digits
RECURSIVE Str(_)
Str(k) == IF k < 10 THEN <<k>> ELSE Append(Str(k \div 10), k % 10)

\* int(k) of a JSON key
RECURSIVE Int_(_)
Int_(k) ==
    IF Len(k) = 1 THEN k[1]
    ELSE 10 * Int_(SubSeq(k, 1, Len(k) - 1)) + k[Len(k)]

NoFile == [state |-> "missing", data |-> <<>>]
CorruptFile == [state |-> "corrupt", data |-> <<>>]

\* (fault) the lists are written newest entry first
Dumps_Reversed(c) ==
    LET keys == {Str(u) : u \in DOMAIN c}
        Rev(v) == [i \in 1..Len(v) |-> v[Len(v) + 1 - i]]
    IN  [state |-> "json",
         data |-> [k \in keys |-> Rev(c[CHOOSE u \in DOMAIN c : Str(u) = k])]]

\* json.dumps({str(k): list(v) for k, v in self._cache.items()})
Dumps(c) ==
    LET keys == {Str(u) : u \in DOMAIN c}
    IN  [state |-> "json",
         data |-> [k \in keys |-> c[CHOOSE u \in DOMAIN c : Str(u) = k]]]

\* a file of valid JSON in which an entry of the second user has no
\* "content": m["content"] raises KeyError while that user is loaded
BadEntryFile ==
    [state |-> "json",
     data |-> (Str(1) :> <<[role |-> "user", content |-> "s"]>>)
              @@ (Str(2) :> <<[role |-> "user"]>>)]

\* the keys of the JSON object in the order data.items() yields them
RECURSIVE KeyOrder(_)
KeyOrder(keys) ==
    IF keys = {} THEN <<>>
    ELSE LET k == CHOOSE x \in keys : \A y \in keys : Int_(x) <= Int_(y)
         IN  <<k>> \o KeyOrder(keys \ {k})

\* every m of the list v has m["content"]
HasContent(v) == \A i \in 1..Len(v) : "content" \in DOMAIN v[i]

\* d[k] = v on a dict, and d.pop(k, None)
DictSet(d, k, v) == [x \in DOMAIN d \cup {k} |-> IF x = k THEN v ELSE d[x]]
DictPop(d, k) == [x \in DOMAIN d \ {k} |-> d[x]]

\* (fault) the users loaded before the exception are kept
RECURSIVE LoadLoop_KeepsPartial(_, _, _)
LoadLoop_KeepsPartial(data, ks, acc) ==
    IF ks = <<>> THEN acc
    ELSE IF ~HasContent(data[Head(ks)]) THEN acc
    ELSE LoadLoop_KeepsPartial(data, Tail(ks),
                               DictSet(acc, Int_(Head(ks)), data[Head(ks)]))

\* _load, `for k, v in data.items()` with the cache acc filled so far: an
\* exception while a user is loaded resets the cache to {}
RECURSIVE LoadLoop(_, _, _)
LoadLoop(data, ks, acc) ==
    IF ks = <<>> THEN acc
    ELSE IF ~HasContent(data[Head(ks)]) THEN <<>>
    ELSE LoadLoop(data, Tail(ks), DictSet(acc, Int_(Head(ks)), data[Head(ks)]))

\* _load: the cache built from the file (empty when the file is missing or
\* json.loads raises)
LoadCache(f) ==
    IF f.state # "json" THEN <<>>
    ELSE LoadLoop(f.data, KeyOrder(DOMAIN f.data), <<>>)

\* what get_user_messages(u) of a store just built from the file returns
LoadGet(f, u) ==
    IF u \in DOMAIN LoadCache(f) THEN LoadCache(f)[u] ELSE <<>>

\* (fault) the totals are not counted while loading
LoadCount_Zero(f) ==
    LET c == LoadCache(f) IN [uid \in DOMAIN c |-> 0]

\* _load: the token totals counted while loading
LoadCount(f) ==
    LET c == LoadCache(f) IN [uid \in DOMAIN c |-> SumTokens(c[uid])]

\* the state of a MemoryStore right after __init__ on one of the files
MemoryStoreInit(files) ==
    /\ file \in files
    /\ cache = LoadCache(file)
    /\ token_cnt = LoadCount(file)
    /\ last_op = [op |-> "load", user_id |-> 0, msg |-> NoMsg, by_count |-> 0,
                  by_tokens |-> 0, saved |-> FALSE, behind |-> FALSE,
                  was |-> [cache |-> <<>>, token_cnt |-> <<>>, file |-> file,
                           saved |-> FALSE],
                  failed |-> 0]

\* (fault) the entry cap is enforced one entry too late
RECURSIVE PruneCount_OffByOne(_, _)
PruneCount_OffByOne(d, cnt) ==
    IF Len(d) > MEMORY_MAX_PER_USER + 1
    THEN PruneCount_OffByOne(Tail(d), cnt - TokenLen(Head(d).content))
    ELSE [d |-> d, token_cnt |-> cnt]

\* (fault) the entry cap does not subtract the tokens of what it evicts
RECURSIVE PruneCount_KeepsTotal(_, _)
PruneCount_KeepsTotal(d, cnt) ==
    IF Len(d) > MEMORY_MAX_PER_USER
    THEN PruneCount_KeepsTotal(Tail(d), cnt)
    ELSE [d |-> d, token_cnt |-> cnt]

\* (fault) the entry cap evicts the newest entries: d.pop()
RECURSIVE PruneCount_PopsNewest(_, _)
PruneCount_PopsNewest(d, cnt) ==
    IF Len(d) > MEMORY_MAX_PER_USER
    THEN PruneCount_PopsNewest(SubSeq(d, 1, Len(d) - 1),
                               cnt - TokenLen(d[Len(d)].content))
    ELSE [d |-> d, token_cnt |-> cnt]

\* _prune, first loop: `while len(d) > MEMORY_MAX_PER_USER`
RECURSIVE PruneCount(_, _)
PruneCount(d, cnt) ==
    IF Len(d) > MEMORY_MAX_PER_USER
    THEN PruneCount(Tail(d), cnt - TokenLen(Head(d).content))
    ELSE [d |-> d, token_cnt |-> cnt]

\* (fault) the token cap evicts one entry at most
PruneTokens_Once(d, cnt) ==
    IF cnt > MEMORY_MAX_TOKENS /\ d # <<>>
    THEN [d |-> Tail(d), token_cnt |-> cnt - TokenLen(Head(d).content)]
    ELSE [d |-> d, token_cnt |-> cnt]

\* (fault) the token cap never evicts the last entry: `len(d) > 1`
RECURSIVE PruneTokens_KeepsLast(_, _)
PruneTokens_KeepsLast(d, cnt) ==
    IF cnt > MEMORY_MAX_TOKENS /\ Len(d) > 1
    THEN PruneTokens_KeepsLast(Tail(d), cnt - TokenLen(Head(d).content))
    ELSE [d |-> d, token_cnt |-> cnt]

\* (fault) the token cap empties the history: d.clear()
PruneTokens_DropsAll(d, cnt) ==
    IF cnt > MEMORY_MAX_TOKENS /\ d # <<>>
    THEN [d |-> <<>>, token_cnt |-> 0]
    ELSE [d |-> d, token_cnt |-> cnt]

\* (fault) the token cap evicts the newest entries: d.pop()
RECURSIVE PruneTokens_PopsNewest(_, _)
PruneTokens_PopsNewest(d, cnt) ==
    IF cnt > MEMORY_MAX_TOKENS /\ d # <<>>
    THEN PruneTokens_PopsNewest(SubSeq(d, 1, Len(d) - 1),
                                cnt - TokenLen(d[Len(d)].content))
    ELSE [d |-> d, token_cnt |-> cnt]

\* _prune, second loop: `while token_cnt > MEMORY_MAX_TOKENS and d`
RECURSIVE PruneTokens(_, _)
PruneTokens(d, cnt) ==
    IF cnt > MEMORY_MAX_TOKENS /\ d # <<>>
    THEN PruneTokens(Tail(d), cnt - TokenLen(Head(d).content))
    ELSE [d |-> d, token_cnt |-> cnt]

\* MongoDBStore._prune_messages(messages, max_messages, max_tokens)
\* (mongodb_store.py): pop(0) while too long, then count the tokens of what
\* is left and pop(0) while the total is over the cap
RECURSIVE MongoPruneCount(_, _)
MongoPruneCount(messages, max_messages) ==
    IF Len(messages) > max_messages
    THEN MongoPruneCount(Tail(messages), max_messages)
    ELSE messages

RECURSIVE MongoPruneTokens(_, _, _)
MongoPruneTokens(messages, total_tokens, max_tokens) ==
    IF total_tokens > max_tokens /\ messages # <<>>
    THEN MongoPruneTokens(Tail(messages),
                          total_tokens - TokenLen(Head(messages).content),
                          max_tokens)
    ELSE messages

PruneMessages(messages, max_messages, max_tokens) ==
    LET kept == MongoPruneCount(messages, max_messages)
    IN  MongoPruneTokens(kept, SumTokens(kept), max_tokens)

\* what a call finds: the cache, the totals, the file, and whether the
\* call before it was an add_message or clear_user whose save succeeded
Was ==
    [cache |-> cache, token_cnt |-> token_cnt, file |-> file,
     saved |-> last_op.op \in {"add", "clear"} /\ last_op.saved]

\* self._cache.get(user_id, []) and self._token_cnt.get(user_id, 0)
CacheGet(u) == IF u \in DOMAIN cache THEN cache[u] ELSE <<>>
CountGet(u) == IF u \in DOMAIN token_cnt THEN token_cnt[u] ELSE 0

\* the file does not hold the histories of the cache (a save has failed)
Behind == \E u \in Users : CacheGet(u) # LoadGet(file, u)

\* (fault) the save updates the users of the cache in the stored object and
\* keeps the other users that are stored
Save_KeepsOldUsers(c, ok) ==
    file' = IF ~ok THEN file
            ELSE IF file.state = "json"
                 THEN [state |-> "json", data |-> Dumps(c).data @@ file.data]
                 ELSE Dumps(c)

\* (fault) the JSON text is written to the file itself: a write that fails
\* leaves a truncated file
Save_InPlace(c, ok) ==
    file' = IF ok THEN Dumps(c) ELSE CorruptFile

\* _save with the cache c: the JSON text is written to the temporary file
\* and that file is renamed over the file (ok), or mkdir, write_text or
\* replace raises, which is swallowed: only the temporary file was touched
Save(c, ok) ==
    file' = IF ok THEN Dumps(c) ELSE file

\* (fault) add_message gives up control after the append: what another
\* call sees is the history before _prune and _save
AddMessage_Suspended(u, msg, ok) ==
    /\ cache' = DictSet(cache, u, Append(CacheGet(u), msg))
    /\ token_cnt' = DictSet(token_cnt, u, CountGet(u) + TokenLen(msg.content))
    /\ file' = file
    /\ last_op' = [op |-> "add", user_id |-> u, msg |-> msg,
                   by_count |-> 0, by_tokens |-> 0,
                   saved |-> FALSE, behind |-> Behind,
                   was |-> Was, failed |-> 0]

\* add_message(user_id, msg)
AddMessage(u, msg, ok) ==
    LET appended == Append(CacheGet(u), msg)
        counted  == CountGet(u) + TokenLen(msg.content)
        first    == PruneCount(appended, counted)
        second   == PruneTokens(first.d, first.token_cnt)
        c        == DictSet(cache, u, second.d)
    IN  /\ cache' = c
        /\ token_cnt' = DictSet(token_cnt, u, second.token_cnt)
        /\ Save(c, ok)
        /\ last_op' = [op |-> "add", user_id |-> u, msg |-> msg,
                       by_count |-> Len(appended) - Len(first.d),
                       by_tokens |-> Len(first.d) - Len(second.d),
                       saved |-> ok, behind |-> Behind,
                       was |-> Was,
                       failed |-> IF ok THEN 0 ELSE last_op.failed + 1]

\* (fault) a clear_user whose save fails puts the history back
ClearUser_RollsBack(u, ok) ==
    /\ cache' = IF ok THEN DictPop(cache, u) ELSE cache
    /\ token_cnt' = IF ok THEN DictPop(token_cnt, u) ELSE token_cnt
    /\ Save(DictPop(cache, u), ok)
    /\ last_op' = [op |-> "clear", user_id |-> u, msg |-> NoMsg,
                   by_count |-> 0, by_tokens |-> 0, saved |-> ok,
                   behind |-> Behind,
                   was |-> Was,
                   failed |-> IF ok THEN 0 ELSE last_op.failed + 1]

\* (fault) clear_user empties the whole store
ClearUser_ClearsAll(u, ok) ==
    /\ cache' = <<>>
    /\ token_cnt' = <<>>
    /\ Save(<<>>, ok)
    /\ last_op' = [op |-> "clear", user_id |-> u, msg |-> NoMsg,
                   by_count |-> 0, by_tokens |-> 0, saved |-> ok,
                   behind |-> Behind,
                   was |-> Was,
                   failed |-> IF ok THEN 0 ELSE last_op.failed + 1]

\* clear_user(user_id)
ClearUser(u, ok) ==
    /\ cache' = DictPop(cache, u)
    /\ token_cnt' = DictPop(token_cnt, u)
    /\ Save(DictPop(cache, u), ok)
    /\ last_op' = [op |-> "clear", user_id |-> u, msg |-> NoMsg,
                   by_count |-> 0, by_tokens |-> 0, saved |-> ok,
                   behind |-> Behind,
                   was |-> Was,
                   failed |-> IF ok THEN 0 ELSE last_op.failed + 1]

\* A caller of get_user_messages(u) changes the content of the i-th entry of
\* the list it got.  `list(self._cache.get(user_id, []))` builds a new list
\* of the same dict objects, so the entry changed is the entry of the deque.
\* The step is taken only while the cached total of u is exact, which keeps
\* the difference between cached and real totals bounded.
CallerChangesEntry(u, i, text) ==
    /\ u \in DOMAIN cache
    /\ i \in 1..Len(cache[u])
    /\ CountGet(u) = SumTokens(cache[u])
    /\ text # cache[u][i].content
    /\ cache' = [cache EXCEPT ![u][i].content = text]
    /\ last_op' = [op |-> "caller_entry", user_id |-> u,
                   msg |-> [role |-> cache[u][i].role, content |-> text],
                   by_count |-> 0, by_tokens |-> 0, saved |-> FALSE,
                   behind |-> Behind,
                   was |-> Was, failed |-> last_op.failed]
    /\ UNCHANGED <<token_cnt, file>>

\* A caller of get_user_messages(u) appends to the list it got or removes
\* elements from it: the list is the caller's own
CallerChangesList(u) ==
    /\ last_op' = [op |-> "caller_list", user_id |-> u, msg |-> NoMsg,
                   by_count |-> 0, by_tokens |-> 0, saved |-> FALSE,
                   behind |-> Behind,
                   was |-> Was, failed |-> last_op.failed]
    /\ UNCHANGED <<cache, token_cnt, file>>

\* the process is started again: a new MemoryStore is built on the file
Restart ==
    /\ cache' = LoadCache(file)
    /\ token_cnt' = LoadCount(file)
    /\ last_op' = [op |-> "load", user_id |-> 0, msg |-> NoMsg,
                   by_count |-> 0, by_tokens |-> 0, saved |-> FALSE,
                   behind |-> FALSE,
                   was |-> Was, failed |-> 0]
    /\ UNCHANGED file

\* ------------------------------------------------------------ RequestQueue
QueueInit ==
    /\ clock = StartTime
    /\ queue = <<>>
    /\ queue_init = FALSE
    /\ processing_users = {}
    /\ user_last_request = <<>>
    /\ worker_task = NoTask
    /\ tasks = <<>>
    /\ pending = EmptyBag
    /\ stops = <<>>
    /\ ready = <<>>
    /\ ret = NoRet
    /\ nput = 0
    /\ granted = {}
    /\ started = <<>>

\* no process_ai_request is running; outcome is how the last one ended
Idle == [pc |-> "idle", user_id |-> 0, text |-> "", prompt |-> <<>>,
         outcome |-> "none"]

\* the request queue of a bot whose memory file does not exist yet
Init ==
    /\ QueueInit
    /\ MemoryStoreInit({NoFile})
    /\ dispatch = Idle

\* --------------------------------------------------- RequestQueue.add_request
\* mutant of Throttled: the comparison is <= instead of <
Throttled_Inclusive(u, t, b) == ~b /\ t - LastRequest(u) <= Cooldown

\* mutant of Throttled: the owner is rate limited like everybody else
Throttled_IgnoresOwner(u, t, b) == t - LastRequest(u) < Cooldown

\* `if not is_owner:` ... `if current_time - last_request < 5.0:`
Throttled(u, t, b) == ~b /\ t - LastRequest(u) < Cooldown

\* mutant of Remaining: the whole cooldown is reported
Remaining_FullCooldown(u, t) == Cooldown

\* remaining = 5.0 - (current_time - last_request)
Remaining(u, t) == Cooldown - (t - LastRequest(u))

\* mutant of RejectCooldown: the time of the request is recorded before the
\* cooldown test, so also for a rejected request
RejectCooldown_Records(u, t, b) ==
    /\ ret' = [user_id |-> u, timestamp |-> t, is_owner |-> b,
               result |-> "cooldown", remaining |-> Remaining(u, t)]
    /\ user_last_request' =
           [x \in DOMAIN user_last_request \cup {u} |->
               IF x = u THEN t ELSE user_last_request[x]]
    /\ UNCHANGED <<queue, processing_users, worker_task, tasks, ready,
                   nput, granted>>

\* return False, "... đợi {remaining:.1f}s ..."
RejectCooldown(u, t, b) ==
    /\ ret' = [user_id |-> u, timestamp |-> t, is_owner |-> b,
               result |-> "cooldown", remaining |-> Remaining(u, t)]
    /\ UNCHANGED <<queue, processing_users, user_last_request,
                   worker_task, tasks, ready, nput, granted>>

\* (fault) a put does not wake the worker that waits in queue.get()
Getters_LostWakeup == <<>>

\* the worker suspended in queue.get() that a put wakes up
Getters ==
    IF worker_task # NoTask
       /\ tasks[worker_task].pc = "get"
       /\ ~InReady(<<"worker", worker_task>>)
    THEN <<(<<"worker", worker_task>>)>> ELSE <<>>

\* (fault) the put waits until no request is being processed
Accept_WaitsForIdle(u, t, b) ==
    LET request == QueuedRequest(nput + 1, u, b, t) IN
    /\ processing_users = {}
    /\ nput < MaxRequests
    /\ ret' = [user_id |-> u, timestamp |-> t, is_owner |-> b,
               result |-> "accept", remaining |-> 0]
    /\ queue' = HeapPush(queue, request)
    /\ nput' = nput + 1
    /\ granted' = IF u = Owner THEN granted ELSE granted \cup {<<u, t>>}
    /\ user_last_request' =
           [x \in DOMAIN user_last_request \cup {u} |->
               IF x = u THEN t ELSE user_last_request[x]]
    /\ IF WorkerDone
       THEN /\ tasks' = Append(tasks, NewTask)
            /\ worker_task' = Len(tasks) + 1
            /\ ready' = ready \o Getters \o <<(<<"worker", Len(tasks) + 1>>)>>
       ELSE /\ ready' = ready \o Getters
            /\ UNCHANGED <<tasks, worker_task>>
    /\ UNCHANGED processing_users

\* add_request lines 94-122: put the request, record the time of the
\* request, start a worker if none is running, return True
Accept(u, t, b) ==
    LET request == QueuedRequest(nput + 1, u, b, t) IN
    /\ nput < MaxRequests
    /\ ret' = [user_id |-> u, timestamp |-> t, is_owner |-> b,
               result |-> "accept", remaining |-> 0]
    /\ queue' = HeapPush(queue, request)
    /\ nput' = nput + 1
    /\ granted' = IF u = Owner THEN granted ELSE granted \cup {<<u, t>>}
    /\ user_last_request' =
           [x \in DOMAIN user_last_request \cup {u} |->
               IF x = u THEN t ELSE user_last_request[x]]
    /\ IF WorkerDone
       THEN /\ tasks' = Append(tasks, NewTask)
            /\ worker_task' = Len(tasks) + 1
            /\ ready' = ready \o Getters \o <<(<<"worker", Len(tasks) + 1>>)>>
       ELSE /\ ready' = ready \o Getters
            /\ UNCHANGED <<tasks, worker_task>>
    /\ UNCHANGED processing_users

\* add_request lines 86-122, reached with the owner lookup answered b
Admit(u, t, b) ==
    IF Throttled(u, t, b) THEN RejectCooldown(u, t, b) ELSE Accept(u, t, b)

\* mutant of InFlight: the owner is exempt from the check
InFlight_OwnerExempt(u) == u # Owner /\ u \in processing_users

\* `if user_id in self._processing_users:`
InFlight(u) == u \in processing_users

\* A message of user u arrives and its handler calls add_request, which runs
\* to its first suspension point (the owner lookup) or to its return.
AddRequest(u) ==
    /\ queue_init' = TRUE
    /\ IF InFlight(u)
       THEN /\ ret' = [user_id |-> u, timestamp |-> clock, is_owner |-> FALSE,
                       result |-> "inflight", remaining |-> 0]
            /\ UNCHANGED <<queue, processing_users, user_last_request,
                           worker_task, tasks, ready, nput, granted, pending>>
       ELSE \/ /\ BagCardinality(pending) < MaxPending
               /\ pending' = pending (+) SetToBag({Call(u, clock)})
               /\ ret' = NoRet
               /\ UNCHANGED <<queue, processing_users, user_last_request,
                              worker_task, tasks, ready, nput, granted>>
            \/ /\ \E b \in OwnerAnswers(u) : Admit(u, clock, b)
               /\ UNCHANGED pending
    /\ UNCHANGED <<clock, stops, started>>

\* the awaited bot.is_owner lookup of the suspended call c completes and
\* add_request resumes
OwnerReply(c) ==
    /\ BagIn(c, pending)
    /\ pending' = pending (-) SetToBag({c})
    /\ \E b \in OwnerAnswers(c.user_id) : Admit(c.user_id, c.timestamp, b)
    /\ UNCHANGED <<clock, queue_init, stops, started>>

\* ------------------------------------------------------ RequestQueue._worker
\* how the iteration of the loop that worker w is leaving ended
Recovered(w) ==
    CASE tasks[w].pc = "callback" -> "none"
      [] tasks[w].pc = "sink" -> "error"
      [] tasks[w].pc = "sleep" -> "fault"
      [] OTHER -> tasks[w].recovered

\* `request = await self._queue.get()` onwards, with processing set pu:
\* wait on an empty queue, else pop, mark the user and start the callback.
GetNext(w, pu) ==
    IF queue = <<>>
    THEN /\ tasks' = [tasks EXCEPT ![w] = [@ EXCEPT !.pc = "get",
                                                    !.req = NoRequest,
                                                    !.recovered = Recovered(w)]]
         /\ processing_users' = pu
         /\ UNCHANGED <<queue, started>>
    ELSE LET request == HeapTop(queue) IN
         /\ queue' = HeapPop(queue)
         /\ processing_users' = pu \cup {request.user_id}
         /\ tasks' = [tasks EXCEPT ![w] = [@ EXCEPT !.pc = "callback",
                                                    !.req = request,
                                                    !.recovered = Recovered(w)]]
         /\ started' = Append(started, request.id)

\* the user of the request worker w is processing
ReqUser(w) == tasks[w].req.user_id

\* mutant of Discard: the marker is not removed
Discard_Skipped(w) == processing_users

\* finally: self._processing_users.discard(request.user_id)
Discard(w) == processing_users \ {ReqUser(w)}

\* the stop() calls suspended in `await self._worker_task` on task w
Waiters(w) ==
    LET idx == {s \in 1..Len(stops) : stops[s].pc = "await" /\ stops[s].task = w}
        RECURSIVE Ordered(_)
        Ordered(S) == IF S = {} THEN <<>>
                      ELSE LET m == CHOOSE x \in S : \A y \in S : x <= y
                           IN  <<(<<"stop", m>>)>> \o Ordered(S \ {m})
    IN  Ordered(idx)

\* a scheduled step of the worker task w: its first step, its wake-up in
\* queue.get(), or the delivery of CancelledError at its current await
WorkerStep(w) ==
    /\ ready # <<>> /\ Head(ready) = <<"worker", w>>
    /\ IF tasks[w].must_cancel
       THEN \* finally (when a request is held), then break
            /\ processing_users' =
                   IF tasks[w].pc \in {"callback", "sink"}
                   THEN Discard(w) ELSE processing_users
            /\ tasks' = [tasks EXCEPT ![w] = [@ EXCEPT !.pc = "done"]]
            /\ ready' = Tail(ready) \o Waiters(w)
            /\ UNCHANGED <<queue, started>>
       ELSE /\ ready' = Tail(ready)
            /\ GetNext(w, processing_users)
    /\ ret' = NoRet
    /\ UNCHANGED <<clock, queue_init, user_last_request, worker_task, pending,
                   stops, nput, granted>>

\* worker w is suspended in the await of pc and no cancel() is pending
Awaiting(w, pc) ==
    /\ tasks[w].pc = pc
    /\ ~tasks[w].must_cancel

\* the processing callback of worker w returns: finally, then the next get
CallbackReturn(w) ==
    /\ Awaiting(w, "callback")
    /\ GetNext(w, Discard(w))
    /\ ret' = NoRet
    /\ UNCHANGED <<clock, queue_init, user_last_request, worker_task, pending,
                   stops, ready, nput, granted>>

\* (fault) the exception of the callback is not caught inside the loop: the
\* finally block runs and the worker task ends
CallbackRaise_Terminates(w) ==
    /\ Awaiting(w, "callback")
    /\ tasks' = [tasks EXCEPT ![w] = [@ EXCEPT !.pc = "done"]]
    /\ processing_users' = Discard(w)
    /\ ret' = NoRet
    /\ UNCHANGED <<clock, queue, queue_init, user_last_request, worker_task,
                   pending, stops, ready, nput, granted, started>>

\* the processing callback of worker w raises an Exception: the worker
\* awaits the error report `request.message.channel.send(...)`
CallbackRaise(w) ==
    /\ Awaiting(w, "callback")
    /\ tasks' = [tasks EXCEPT ![w] = [@ EXCEPT !.pc = "sink"]]
    /\ ret' = NoRet
    /\ UNCHANGED <<clock, queue, queue_init, processing_users,
                   user_last_request, worker_task, pending, stops, ready,
                   nput, granted, started>>

\* (fault) the request whose callback raised is put back on the queue
SinkDone_Requeues(w) ==
    /\ Awaiting(w, "sink")
    /\ queue' = HeapPush(queue, tasks[w].req)
    /\ processing_users' = Discard(w)
    /\ tasks' = [tasks EXCEPT ![w] = [@ EXCEPT !.pc = "get",
                                               !.req = NoRequest,
                                               !.recovered = "error"]]
    /\ ready' = Append(ready, <<"worker", w>>)
    /\ ret' = NoRet
    /\ UNCHANGED <<clock, queue_init, user_last_request, worker_task, pending,
                   stops, nput, granted, started>>

\* the error report ends (by returning, or by raising, which is caught):
\* finally, then the next get
SinkDone(w) ==
    /\ Awaiting(w, "sink")
    /\ GetNext(w, Discard(w))
    /\ ret' = NoRet
    /\ UNCHANGED <<clock, queue_init, user_last_request, worker_task, pending,
                   stops, ready, nput, granted>>

\* (fault) the exception raised by the wait is not caught: the task ends
GetFault_Terminates(w) ==
    /\ Awaiting(w, "get")
    /\ ~InReady(<<"worker", w>>)
    /\ tasks' = [tasks EXCEPT ![w] = [@ EXCEPT !.pc = "done"]]
    /\ ret' = NoRet
    /\ UNCHANGED <<clock, queue, queue_init, processing_users,
                   user_last_request, worker_task, pending, stops, ready,
                   nput, granted, started>>

\* the wait in `await self._queue.get()` of worker w raises an Exception
\* other than CancelledError: `except Exception`, then `asyncio.sleep(1)`
GetFault(w) ==
    /\ Awaiting(w, "get")
    /\ ~InReady(<<"worker", w>>)
    /\ tasks' = [tasks EXCEPT ![w] = [@ EXCEPT !.pc = "sleep"]]
    /\ ret' = NoRet
    /\ UNCHANGED <<clock, queue, queue_init, processing_users,
                   user_last_request, worker_task, pending, stops, ready,
                   nput, granted, started>>

\* the backoff sleep of worker w ends: the loop goes on with the next get
SleepDone(w) ==
    /\ Awaiting(w, "sleep")
    /\ GetNext(w, processing_users)
    /\ ret' = NoRet
    /\ UNCHANGED <<clock, queue_init, user_last_request, worker_task, pending,
                   stops, ready, nput, granted>>

\* --------------------------------------------------------- RequestQueue.stop
\* (fault) the queue is not emptied
Drain_KeepsQueue(s, ss) ==
    /\ processing_users' = {}
    /\ queue' = queue
    /\ stops' = [ss EXCEPT ![s] = [@ EXCEPT !.pc = "done"]]

\* stop() lines 178-190: clear the processing set and empty the queue
Drain(s, ss) ==
    /\ processing_users' = {}
    /\ queue' = IF queue_init THEN <<>> ELSE queue
    /\ stops' = [ss EXCEPT ![s] = [@ EXCEPT !.pc = "done"]]

\* stop() is called and runs to `await self._worker_task`, or to its end
\* when no worker is running
StopCall ==
    /\ Len(stops) < MaxStops
    /\ LET s  == Len(stops) + 1
           ss == Append(stops, [pc |-> "await", task |-> worker_task,
                                queued |-> {queue[i].id : i \in 1..Len(queue)}])
       IN  IF WorkerRunning
           THEN \* self._worker_task.cancel()
                /\ tasks' = [tasks EXCEPT ![worker_task] =
                                [@ EXCEPT !.must_cancel = TRUE]]
                /\ ready' = IF InReady(<<"worker", worker_task>>)
                            THEN ready
                            ELSE Append(ready, <<"worker", worker_task>>)
                /\ stops' = ss
                /\ UNCHANGED <<queue, processing_users>>
           ELSE /\ Drain(s, ss)
                /\ UNCHANGED <<tasks, ready>>
    /\ ret' = NoRet
    /\ UNCHANGED <<clock, queue_init, user_last_request, worker_task, pending,
                   nput, granted, started>>

\* stop() resumes after the worker task has ended
StopStep(s) ==
    /\ ready # <<>> /\ Head(ready) = <<"stop", s>>
    /\ Drain(s, stops)
    /\ ready' = Tail(ready)
    /\ ret' = NoRet
    /\ UNCHANGED <<clock, queue_init, user_last_request, worker_task, tasks,
                   pending, nput, granted, started>>

\* ------------------------------------------------------------------- clock
\* time passes between two steps of the event loop
Tick ==
    /\ \E t \in TimePoints : t > clock /\ clock' = t
    /\ ret' = NoRet
    /\ UNCHANGED <<queue, queue_init, processing_users, user_last_request,
                   worker_task, tasks, pending, stops, ready, nput, granted,
                   started>>

Next ==
    \/ (\E u \in Users : AddRequest(u)) /\ UNCHANGED memory_vars
    \/ (\E c \in BagToSet(pending) : OwnerReply(c)) /\ UNCHANGED memory_vars
    \/ (\E w \in 1..Len(tasks) : WorkerStep(w)) /\ UNCHANGED memory_vars
    \/ (\E w \in 1..Len(tasks) : CallbackReturn(w)) /\ UNCHANGED memory_vars
    \/ (\E w \in 1..Len(tasks) : CallbackRaise(w)) /\ UNCHANGED memory_vars
    \/ (\E w \in 1..Len(tasks) : SinkDone(w)) /\ UNCHANGED memory_vars
    \/ (\E w \in 1..Len(tasks) : GetFault(w)) /\ UNCHANGED memory_vars
    \/ (\E w \in 1..Len(tasks) : SleepDone(w)) /\ UNCHANGED memory_vars
    \/ StopCall /\ UNCHANGED memory_vars
    \/ (\E s \in 1..Len(stops) : StopStep(s)) /\ UNCHANGED memory_vars
    \/ Tick /\ UNCHANGED memory_vars

Spec == Init /\ [][Next]_vars

\* The request queue when stop() is never called.  The event loop runs every
\* step on its ready list, the processing callback ends (by returning or by
\* raising), the error report ends and the backoff sleep ends.
LiveNext ==
    \/ (\E u \in Users : AddRequest(u)) /\ UNCHANGED memory_vars
    \/ (\E c \in BagToSet(pending) : OwnerReply(c)) /\ UNCHANGED memory_vars
    \/ (\E w \in 1..Len(tasks) : WorkerStep(w)) /\ UNCHANGED memory_vars
    \/ (\E w \in 1..Len(tasks) : CallbackReturn(w)) /\ UNCHANGED memory_vars
    \/ (\E w \in 1..Len(tasks) : CallbackRaise(w)) /\ UNCHANGED memory_vars
    \/ (\E w \in 1..Len(tasks) : SinkDone(w)) /\ UNCHANGED memory_vars
    \/ (\E w \in 1..Len(tasks) : GetFault(w)) /\ UNCHANGED memory_vars
    \/ (\E w \in 1..Len(tasks) : SleepDone(w)) /\ UNCHANGED memory_vars
    \/ Tick /\ UNCHANGED memory_vars

\* a step of the worker that the event loop or the end of an awaited
\* operation makes it take
WorkerProgress ==
    /\ \E w \in 1..Len(tasks) :
           \/ WorkerStep(w)
           \/ CallbackReturn(w)
           \/ CallbackRaise(w)
           \/ SinkDone(w)
           \/ SleepDone(w)
    /\ UNCHANGED memory_vars

LiveSpec == Init /\ [][LiveNext]_vars /\ WF_vars(WorkerProgress)

\* the memory store alone: any sequence of add_message and clear_user calls
\* and of restarts, from a missing, an unreadable or a malformed file
MemoryInit ==
    /\ QueueInit
    /\ MemoryStoreInit({NoFile, CorruptFile, BadEntryFile})
    /\ dispatch = Idle

\* what _save may do in the next call: succeed, or raise inside its try
SaveOutcomes == IF last_op.failed < MaxFailedSaves THEN BOOLEAN ELSE {TRUE}

MemoryNext ==
    \/ (\E u \in Users, msg \in Messages, ok \in SaveOutcomes :
            AddMessage(u, msg, ok)) /\ UNCHANGED <<queue_vars, dispatch>>
    \/ (\E u \in Users, ok \in SaveOutcomes : ClearUser(u, ok))
            /\ UNCHANGED <<queue_vars, dispatch>>
    \/ Restart /\ UNCHANGED <<queue_vars, dispatch>>

MemorySpec == MemoryInit /\ [][MemoryNext]_vars

\* the contents a caller writes over an entry of the list it was given: a
\* shorter and a longer one, so that a change lowers or raises the length
CallerTexts == {"s", "m"}

\* the memory store and a caller that changes what get_user_messages
\* returned to it; every save succeeds
AliasNext ==
    \/ (\E u \in Users, msg \in Messages : AddMessage(u, msg, TRUE))
            /\ UNCHANGED <<queue_vars, dispatch>>
    \/ (\E u \in Users : ClearUser(u, TRUE)) /\ UNCHANGED <<queue_vars, dispatch>>
    \/ (\E u \in Users, i \in 1..MEMORY_MAX_PER_USER, text \in CallerTexts :
            CallerChangesEntry(u, i, text)) /\ UNCHANGED <<queue_vars, dispatch>>
    \/ (\E u \in Users : CallerChangesList(u)) /\ UNCHANGED <<queue_vars, dispatch>>

AliasSpec == MemoryInit /\ [][AliasNext]_vars

\* ------------------------------------------------------ process_ai_request
\* The callback the worker runs for a request, and the command handlers that
\* run on the same event loop while the callback waits for the completion
\* provider.  add_message, get_user_messages and clear_user are plain
\* methods without an await, so each call is part of one step of the
\* coroutine that makes it; only call_openai_proxy runs in an executor
\* thread, and it does not touch the store.

\* the replies of the provider after strip() and convert_latex_to_discord
Replies == Texts

\* UserConfigManager.get_user_system_message(user_id): each user's own prompt
SystemMessage(u) ==
    [role |-> "system", content |-> IF u = Owner THEN "p_owner" ELSE "p_user"]

UserTurn(text) == [role |-> "user", content |-> text]
AssistantTurn(reply) == [role |-> "assistant", content |-> reply]

\* payload_messages = [user_system_message] + user_memory + [{user turn}]
Payload(user_system_message, user_memory, final_user_text) ==
    <<user_system_message>> \o user_memory \o <<UserTurn(final_user_text)>>

\* (fault) the history is read before the user turn is stored
ProcessStart_ReadsFirst(u, text) ==
    /\ dispatch.pc = "idle"
    /\ AddMessage(u, UserTurn(text), TRUE)
    /\ dispatch' = [pc |-> "provider", user_id |-> u, text |-> text,
                    prompt |-> Payload(SystemMessage(u), CacheGet(u), text),
                    outcome |-> "none"]

\* process_ai_request up to the await of the provider call: the user turn is
\* stored, the history is read back and the prompt is built
ProcessStart(u, text) ==
    /\ dispatch.pc = "idle"
    /\ AddMessage(u, UserTurn(text), TRUE)
    /\ dispatch' = [pc |-> "provider", user_id |-> u, text |-> text,
                    prompt |-> Payload(SystemMessage(u), cache'[u], text),
                    outcome |-> "none"]

\* the provider returned (True, resp): the reply is stored
ProviderOk(reply) ==
    /\ dispatch.pc = "provider"
    /\ AddMessage(dispatch.user_id, AssistantTurn(reply), TRUE)
    /\ dispatch' = [Idle EXCEPT !.outcome = "ok"]

\* (fault) the error text of a failed call is stored as the reply
ProviderFailed_StoresError ==
    /\ dispatch.pc = "provider"
    /\ AddMessage(dispatch.user_id, AssistantTurn("s"), TRUE)
    /\ dispatch' = [Idle EXCEPT !.outcome = "failed"]

\* the provider returned (False, resp): the error is sent to the channel
ProviderFailed ==
    /\ dispatch.pc = "provider"
    /\ dispatch' = [Idle EXCEPT !.outcome = "failed"]
    /\ UNCHANGED <<cache, token_cnt, file, last_op>>

\* the typing indicator or the provider call raised, or the callback was
\* cancelled while it waited
ProviderRaised ==
    /\ dispatch.pc = "provider"
    /\ dispatch' = [Idle EXCEPT !.outcome = "raised"]
    /\ UNCHANGED <<cache, token_cnt, file, last_op>>

\* clearmemory_cmd for the user `target`
ClearCommand(target) ==
    /\ ClearUser(target, TRUE)
    /\ UNCHANGED dispatch

DispatchNext ==
    \/ (\E u \in Users, text \in Texts : ProcessStart(u, text))
            /\ UNCHANGED queue_vars
    \/ (\E reply \in Replies : ProviderOk(reply)) /\ UNCHANGED queue_vars
    \/ ProviderFailed /\ UNCHANGED queue_vars
    \/ ProviderRaised /\ UNCHANGED queue_vars
    \/ (\E target \in Users : ClearCommand(target)) /\ UNCHANGED queue_vars

DispatchSpec == Init /\ [][DispatchNext]_vars

\* ================================================================= claims
\* worker w holds a request: its callback, or the error report after the
\* callback raised, is running
Holding(w) == tasks[w].pc \in {"callback", "sink"}

Workers == 1..Len(tasks)
Queued == {queue[i] : i \in 1..Len(queue)}

\* the request a dequeue step takes from the queue
Popped == CHOOSE q \in Queued : q.id = started'[Len(started')]

\* C1: at every instant at most one request of a given requester is queued
\* or being processed: the number of its requests in the priority queue plus
\* the one run by the worker callback never exceeds one.
C1_InFlightExclusive ==
    \A u \in Users :
        Cardinality({i \in 1..Len(queue) : queue[i].user_id = u})
          + Cardinality({w \in Workers : Holding(w) /\ ReqUser(w) = u}) <= 1

\* C2: an add_request called for a requester who is in the in-flight set
\* returns the already-in-flight rejection, whoever the requester is and
\* whatever the cooldown state, and puts nothing on the queue.
C2_InFlightRejected ==
    [][\A u \in Users :
          (AddRequest(u) /\ u \in processing_users)
             => /\ ret'.result = "inflight"
                /\ ret'.user_id = u
                /\ queue' = queue
                /\ nput' = nput]_vars

\* C2 witness: the owner, in flight, has just been rejected while the
\* cooldown would not have stopped a privileged request
C2_Witness ==
    /\ ret.result = "inflight"
    /\ ret.user_id = Owner
    /\ Owner \in processing_users

\* C3: every dequeue takes a Privileged request if one is pending, and
\* within the class it takes from, a request with the earliest timestamp:
\* a Privileged request overtakes the Normal requests enqueued before it.
C3_PrivilegedFirst ==
    [][started' # started
          => /\ (\E q \in Queued : q.is_owner) => Popped.is_owner
             /\ \A q \in Queued :
                   q.is_owner = Popped.is_owner
                      => Popped.timestamp <= q.timestamp]_vars

\* C3 witness: A (Normal), B (Privileged), C (Normal) were enqueued in that
\* order with increasing timestamps, all three were pending, and B was
\* dequeued first
C3_Witness ==
    \E w \in Workers : \E a, c \in Queued :
        /\ started = <<2>>
        /\ tasks[w].pc = "callback"
        /\ tasks[w].req.id = 2 /\ tasks[w].req.is_owner
        /\ a.id = 1 /\ ~a.is_owner
        /\ c.id = 3 /\ ~c.is_owner
        /\ a.timestamp < tasks[w].req.timestamp
        /\ tasks[w].req.timestamp < c.timestamp

\* C4: among requests of the same priority class the worker processes them
\* in the order in which they were put on the queue: a dequeue never takes a
\* request while one of its class that was enqueued before it is pending.
C4_FifoWithinClass ==
    [][started' # started
          => \A q \in Queued :
                q.is_owner = Popped.is_owner => Popped.id <= q.id]_vars

\* C5: no preemption: at most one request is being processed at any
\* instant, also while a Privileged request waits in the queue.
C5_AtMostOneProcessing ==
    Cardinality({w \in Workers : Holding(w)}) <= 1

\* C5 witness: the callback runs for a Normal request while a Privileged
\* request is pending
C5_Witness ==
    \E w \in Workers : \E q \in Queued :
        /\ tasks[w].pc = "callback"
        /\ ~tasks[w].req.is_owner
        /\ q.is_owner

\* C6: an add_request of a non-privileged requester that passed the
\* in-flight check is rejected for cooldown exactly when its time minus the
\* time recorded for the requester is below the cooldown; so a request of a
\* requester who is never privileged is accepted only at least a cooldown
\* apart from each of the requester's earlier accepted requests.
C6_CooldownExact ==
    [][(ret'.result \in {"accept", "cooldown"} /\ ~ret'.is_owner)
          => /\ ret'.result = "cooldown"
                   <=> ret'.timestamp - LastRequest(ret'.user_id) < 50
             /\ (ret'.result = "accept" /\ ret'.user_id # Owner)
                   => \A g \in granted :
                         g[1] = ret'.user_id
                            => \/ ret'.timestamp - g[2] >= 50
                               \/ g[2] - ret'.timestamp >= 50]_vars

\* C6 witness: a second request of the same never-privileged requester has
\* just been accepted
C6_Witness ==
    /\ ret.result = "accept"
    /\ ret.user_id # Owner
    /\ \E g \in granted : g[1] = ret.user_id /\ g[2] # ret.timestamp

\* C7 as claimed: a non-privileged user who re-requests one second after the
\* accepted request is rejected with a remaining time of about 5.0 seconds
\* (within half a second of it).
C7_RemainingAboutFive ==
    (/\ ret.result = "cooldown"
     /\ ret.user_id \in DOMAIN user_last_request
     /\ ret.timestamp - LastRequest(ret.user_id) = 10)
        => ret.remaining \in 45..55

\* C7 amended: the remaining time of a cooldown rejection is the cooldown
\* minus the time elapsed since the recorded request: 4.0 seconds for a
\* request one second after the accepted one.
C7_RemainingIsRest ==
    ret.result = "cooldown"
        => /\ ret.remaining = 50 - (ret.timestamp - LastRequest(ret.user_id))
           /\ ret.timestamp - LastRequest(ret.user_id) = 10
                 => ret.remaining = 40

\* C7 witness: the rejection one second after the accepted request
C7_Witness ==
    /\ ret.result = "cooldown"
    /\ ret.user_id \in DOMAIN user_last_request
    /\ ret.timestamp - LastRequest(ret.user_id) = 10
    /\ ret.remaining = 40

\* C8: a request found privileged is never rejected for cooldown, and an
\* add_request of the owner is rejected while the owner is in the in-flight
\* set.
C8_OwnerBypass ==
    [][/\ ret'.is_owner => ret'.result # "cooldown"
       /\ (AddRequest(Owner) /\ Owner \in processing_users)
             => ret'.result = "inflight"]_vars

\* C8 witness: a privileged request has just been accepted less than a
\* cooldown after another privileged request that is still pending
C8_Witness ==
    /\ ret.result = "accept" /\ ret.is_owner
    /\ \E q \in Queued :
          /\ q.is_owner
          /\ q.timestamp # ret.timestamp
          /\ q.timestamp - ret.timestamp < 50
          /\ ret.timestamp - q.timestamp < 50

\* C9: a rejected add_request returns its rejection and leaves the queue,
\* the in-flight set, the recorded request times and the worker task as they
\* were before the step.
C9_RejectKeepsState ==
    [][ret'.result \in {"inflight", "cooldown"}
          => UNCHANGED <<queue, processing_users, user_last_request,
                         worker_task, tasks, ready, nput>>]_vars

\* C9 witness: a cooldown rejection while a request is pending and another
\* is being processed
C9_Witness ==
    /\ ret.result = "cooldown"
    /\ queue # <<>>
    /\ processing_users # {}

\* C10: the in-flight set holds exactly the requesters of the requests whose
\* callback (or error report) is running: the marker is there from before
\* the callback starts, and it is gone once the callback has ended by
\* returning, raising or being cancelled.
C10_MarkerTracksCallback ==
    processing_users = {ReqUser(w) : w \in {x \in Workers : Holding(x)}}

\* C10 witness: the worker was cancelled inside the callback and has ended,
\* stop() has not yet resumed, and the marker is gone
C10_Witness ==
    \E w \in Workers : \E s \in 1..Len(stops) :
        /\ tasks[w].pc = "done"
        /\ tasks[w].req # NoRequest
        /\ stops[s].pc = "await"
        /\ processing_users = {}

\* the ids of the requests passed to the callback so far
Started == {started[i] : i \in 1..Len(started)}

\* C11: a worker that holds a request and has not been cancelled never ends:
\* from the callback it goes on to the error report or to the next get, and
\* when the error report ends it takes the next pending request if there is
\* one and waits for one otherwise.
C11_ErrorNeverEndsLoop ==
    [][\A w \in Workers :
          (Holding(w) /\ ~tasks[w].must_cancel) =>
              /\ tasks'[w].pc \in {"callback", "sink", "get"}
              /\ (tasks[w].pc = "sink" /\ tasks'[w].pc # "sink") =>
                     IF queue = <<>>
                     THEN tasks'[w].pc = "get"
                     ELSE /\ tasks'[w].pc = "callback"
                          /\ tasks'[w].req \in Queued
                          /\ tasks'[w].req # tasks[w].req]_vars

\* a worker is processing a request after the callback of its previous
\* request raised
C11_Witness ==
    \E w \in Workers :
        tasks[w].pc = "callback" /\ tasks[w].recovered = "error"

\* C13: no request is passed to the callback twice, and no request that was
\* passed to the callback is on the queue.
C13_AtMostOnce ==
    /\ \A i, j \in 1..Len(started) : i # j => started[i] # started[j]
    /\ \A q \in Queued : q.id \notin Started

\* every accepted request was processed, the last one ended with an
\* exception, and the queue is empty
C13_Witness ==
    /\ Len(started) = MaxRequests
    /\ queue = <<>>
    /\ \E w \in Workers : tasks[w].pc = "get" /\ tasks[w].recovered = "error"

\* the stop() call s returns in this step
StopReturns(s) ==
    /\ stops'[s].pc = "done"
    /\ s <= Len(stops) => stops[s].pc = "await"

\* C14: a request that was in the queue when a stop() was called is never
\* passed to the callback, and the queue is empty when that stop() returns.
C14_DrainedNeverProcessed ==
    [][\A s \in 1..Len(stops') :
          /\ \A i \in 1..Len(started') : started'[i] \notin stops'[s].queued
          /\ StopReturns(s) => queue' = <<>>]_vars

\* a stop() that found requests in the queue has returned, and the worker
\* started after it is processing a request accepted later
C14_Witness ==
    \E s \in 1..Len(stops) :
        /\ stops[s].pc = "done"
        /\ stops[s].queued # {}
        /\ \E w \in Workers : tasks[w].pc = "callback" /\ w # stops[s].task

\* C15: the worker that is cancelled while it holds a request removes the
\* marker of that request's user when it ends, and the in-flight set is
\* empty when stop() returns.
C15_StopClearsInFlight ==
    [][/\ \A w \in Workers :
            (Holding(w) /\ tasks'[w].pc = "done") =>
                tasks[w].req.user_id \notin processing_users'
       /\ \A s \in 1..Len(stops') :
            StopReturns(s) => processing_users' = {}]_vars

\* stop() has returned after cancelling a worker that held a request
C15_Witness ==
    \E s \in 1..Len(stops) :
        /\ stops[s].pc = "done"
        /\ stops[s].task # NoTask
        /\ tasks[stops[s].task].pc = "done"
        /\ tasks[stops[s].task].req # NoRequest
        /\ processing_users = {}

\* C16: at most one worker task is not done, and a step creates a worker
\* task exactly when it accepts a request while no worker task exists or
\* the last one is done.
C16_SingleWorker ==
    [][/\ Cardinality({w \in 1..Len(tasks') : tasks'[w].pc # "done"}) <= 1
       /\ IF nput' # nput
          THEN Len(tasks') = Len(tasks) + 1
                   <=> (worker_task = NoTask \/ tasks[worker_task].pc = "done")
          ELSE Len(tasks') = Len(tasks)]_vars

\* a second worker is processing after the first one was ended by stop()
C16_Witness ==
    /\ Len(tasks) = 2
    /\ tasks[1].pc = "done"
    /\ tasks[2].pc = "callback"

\* C17: while a worker is suspended in the callback, a call of add_request
\* by a requester who is not in flight can return in the same step, with an
\* acceptance that enqueues or with a cooldown rejection, and the worker is
\* still in the callback.
C17_AddRequestNeverWaits ==
    \A w \in Workers : \A u \in Users :
        (tasks[w].pc = "callback" /\ u \notin processing_users
            /\ nput < MaxRequests) =>
            ENABLED (/\ AddRequest(u)
                     /\ tasks'[w].pc = "callback"
                     /\ \/ ret'.result = "cooldown" /\ queue' = queue
                        \/ ret'.result = "accept"
                              /\ Len(queue') = Len(queue) + 1)

\* a request of user 2 was accepted while the worker was in the callback of
\* a request of user 1
C17_Witness ==
    /\ ret.result = "accept"
    /\ ret.user_id = 2
    /\ \E w \in Workers : tasks[w].pc = "callback" /\ tasks[w].req.user_id = 1
    /\ queue # <<>>

\* C18: a worker task ends only in a step that delivers a cancellation, and
\* a worker that sleeps after an exception of the loop goes on to the next
\* get when the sleep ends.
C18_EndsOnlyByCancel ==
    [][\A w \in Workers :
          /\ (tasks[w].pc # "done" /\ tasks'[w].pc = "done") =>
                 tasks[w].must_cancel
          /\ (tasks[w].pc = "sleep" /\ ~tasks[w].must_cancel
                 /\ tasks'[w].pc # "sleep") =>
                 tasks'[w].pc = IF queue = <<>> THEN "get" ELSE "callback"]_vars

\* a worker is processing a request after an exception of the loop and the
\* backoff that followed it
C18_Witness ==
    \E w \in Workers :
        tasks[w].pc = "callback" /\ tasks[w].recovered = "fault"

\* C19: every user's history has at most MEMORY_MAX_PER_USER entries.
C19_EntryCap ==
    \A u \in DOMAIN cache : Len(cache[u]) <= MEMORY_MAX_PER_USER

\* an add_message has just evicted by the entry cap and left a full history
C19_Witness ==
    /\ last_op.op = "add"
    /\ last_op.by_count > 0
    /\ Len(cache[last_op.user_id]) = MEMORY_MAX_PER_USER

\* C20: the token counts of every user's stored entries sum to at most
\* MEMORY_MAX_TOKENS.
C20_TokenCap ==
    \A u \in DOMAIN cache : SumTokens(cache[u]) <= MEMORY_MAX_TOKENS

\* an add_message has just evicted by the token cap and left entries
C20_Witness ==
    /\ last_op.op = "add"
    /\ last_op.by_tokens > 0
    /\ cache[last_op.user_id] # <<>>

\* C12: when stop() is never called and every callback ends, each accepted
\* request is eventually passed to the callback.
C12_AcceptedEventuallyProcessed ==
    \A id \in 1..MaxRequests : (nput >= id) ~> (id \in Started)

\* every request that was accepted has been passed to the callback, and the
\* worker waits for the next one
C12_Witness ==
    /\ nput = MaxRequests
    /\ Started = 1..MaxRequests
    /\ stops = <<>>
    /\ \E w \in Workers : tasks[w].pc = "get"

\* sequence a is a suffix of sequence b
IsSuffix(a, b) ==
    /\ Len(a) <= Len(b)
    /\ a = SubSeq(b, Len(b) - Len(a) + 1, Len(b))

\* the history the user of the last call had when the call was made
Found(u) == IF u \in DOMAIN last_op.was.cache THEN last_op.was.cache[u] ELSE <<>>

\* the history the last add_message found, followed by the message of the
\* call
Offered == Append(Found(last_op.user_id), last_op.msg)

\* C21: after add_message(user, m) the user's history is a suffix of the
\* history before the call followed by m: entries leave at the head only and
\* the kept entries keep their order.
C21_EvictsFromHead ==
    last_op.op = "add" =>
        /\ last_op.user_id \in DOMAIN cache
        /\ IsSuffix(cache[last_op.user_id], Offered)

\* an add_message has evicted and kept two entries that differ
C21_Witness ==
    /\ last_op.op = "add"
    /\ last_op.by_count + last_op.by_tokens > 0
    /\ Len(cache[last_op.user_id]) >= 2
    /\ cache[last_op.user_id][1] # cache[last_op.user_id][2]

\* the last n entries of sequence b (all of b when it has fewer)
LastN(b, n) == IF Len(b) <= n THEN b ELSE SubSeq(b, Len(b) - n + 1, Len(b))

\* C22: an add_message that makes the history longer than
\* MEMORY_MAX_PER_USER while the tokens of the last MEMORY_MAX_PER_USER
\* entries fit the token cap leaves exactly those last entries, in order.
C22_CountEviction ==
    (/\ last_op.op = "add"
     /\ Len(Offered) > MEMORY_MAX_PER_USER
     /\ SumTokens(LastN(Offered, MEMORY_MAX_PER_USER)) <= MEMORY_MAX_TOKENS)
    => cache[last_op.user_id] = LastN(Offered, MEMORY_MAX_PER_USER)

\* an add_message has evicted one entry by the entry cap alone, and the
\* full history it left ends with the new message and starts with another
C22_Witness ==
    /\ last_op.op = "add"
    /\ last_op.by_count = 1
    /\ last_op.by_tokens = 0
    /\ Len(cache[last_op.user_id]) = MEMORY_MAX_PER_USER
    /\ cache[last_op.user_id][MEMORY_MAX_PER_USER] = last_op.msg
    /\ cache[last_op.user_id][1] # last_op.msg

\* the suffixes of sequence b, and those within both caps
Suffixes(b) == {SubSeq(b, i, Len(b)) : i \in 1..(Len(b) + 1)}
Fits(d) ==
    /\ Len(d) <= MEMORY_MAX_PER_USER
    /\ SumTokens(d) <= MEMORY_MAX_TOKENS
LongestFit(b) ==
    CHOOSE d \in Suffixes(b) :
        Fits(d) /\ \A e \in Suffixes(b) : Fits(e) => Len(e) <= Len(d)

\* C23: after add_message the history is the longest suffix of the old
\* history with the new entry appended that is within both caps.
C23_LongestSuffix ==
    last_op.op = "add" => cache[last_op.user_id] = LongestFit(Offered)

\* two entries of 4 tokens are left after a third entry of 4 tokens was
\* added and the token cap evicted the first one
C23_Witness ==
    /\ last_op.op = "add"
    /\ last_op.by_count = 0
    /\ last_op.by_tokens = 1
    /\ TokenLen(last_op.msg.content) = 4
    /\ Len(cache[last_op.user_id]) = 2
    /\ SumTokens(cache[last_op.user_id]) = 8

\* the last operation was an add_message or a clear_user call
Mutation == last_op.op \in {"add", "clear"}

\* C24: a store built on the file after a call whose save succeeded returns
\* for every user the sequence the store that saved it returned.
C24_RoundTrip ==
    (last_op.op = "load" /\ last_op.was.saved) =>
        \A u \in Users : CacheGet(u) = Found(u)

\* a store was built from a file that holds histories of two users, one of
\* them with two entries that differ
C24_Witness ==
    /\ last_op.op = "load"
    /\ file.state = "json"
    /\ \A u \in 1..2 : u \in DOMAIN cache /\ cache[u] # <<>>
    /\ \E u \in 1..2 : Len(cache[u]) >= 2 /\ cache[u][1] # cache[u][2]

\* C25: after a call whose save succeeded the file holds, for every user,
\* exactly the history the store holds, whatever saves failed before it.
C25_SnapshotIsWholeMap ==
    (Mutation /\ last_op.saved) =>
        /\ file.state = "json"
        /\ \A u \in Users :
              /\ Str(u) \in DOMAIN file.data <=> u \in DOMAIN cache
              /\ u \in DOMAIN cache => file.data[Str(u)] = cache[u]

\* a save has succeeded after a failed one: the file was behind the store
\* and now holds, besides the history of the user of the call, the
\* history of the other user
C25_Witness ==
    /\ last_op.op = "add"
    /\ last_op.saved
    /\ last_op.behind
    /\ \E v \in Users \ {last_op.user_id} :
           /\ v \in DOMAIN cache /\ cache[v] # <<>>
           /\ file.data[Str(v)] = cache[v]

\* C27: a call whose save failed leaves the file as it was and the store as
\* the call with a successful save leaves it: add_message keeps the pruned
\* history and its token total, clear_user removes the user.
C27_FailedSaveKeepsMutation ==
    (Mutation /\ ~last_op.saved) =>
        LET u == last_op.user_id
            was == last_op.was
        IN  /\ file = was.file
            /\ last_op.op = "add" =>
                  /\ cache = DictSet(was.cache, u, LongestFit(Offered))
                  /\ token_cnt = DictSet(was.token_cnt, u, SumTokens(cache[u]))
            /\ last_op.op = "clear" =>
                  /\ cache = DictPop(was.cache, u)
                  /\ token_cnt = DictPop(was.token_cnt, u)

\* a clear_user whose save failed has removed a history the file still holds
C27_Witness ==
    /\ last_op.op = "clear"
    /\ ~last_op.saved
    /\ last_op.user_id \notin DOMAIN cache
    /\ LoadGet(file, last_op.user_id) # <<>>

\* C30: clear_user(u) leaves u without history and without token total, and
\* add_message(u, m) and clear_user(u) leave every other user's history and
\* token total as they were.
C30_OtherUsersUntouched ==
    Mutation =>
        LET u == last_op.user_id
            was == last_op.was
        IN  /\ last_op.op = "clear" =>
                  u \notin DOMAIN cache /\ u \notin DOMAIN token_cnt
            /\ \A v \in Users \ {u} :
                  /\ v \in DOMAIN cache <=> v \in DOMAIN was.cache
                  /\ v \in DOMAIN was.cache => cache[v] = was.cache[v]
                  /\ v \in DOMAIN token_cnt <=> v \in DOMAIN was.token_cnt
                  /\ v \in DOMAIN was.token_cnt =>
                        token_cnt[v] = was.token_cnt[v]

\* a user was cleared while the other user keeps a history of two entries
C30_Witness ==
    /\ last_op.op = "clear"
    /\ last_op.saved
    /\ last_op.user_id \notin DOMAIN cache
    /\ \E v \in Users \ {last_op.user_id} :
           v \in DOMAIN cache /\ Len(cache[v]) = 2

\* file f holds valid JSON whose entries all have a content
Readable(f) ==
    /\ f.state = "json"
    /\ \A k \in DOMAIN f.data : HasContent(f.data[k])

\* C26: a step that changes the file leaves in it the complete snapshot of
\* the store after the step; every other step, a failed save included,
\* leaves the file as it was.
C26_NoPartialWrite ==
    /\ file # last_op.was.file =>
          /\ Readable(file)
          /\ DOMAIN file.data = {Str(u) : u \in DOMAIN cache}
          /\ \A u \in DOMAIN cache : file.data[Str(u)] = cache[u]
    /\ (Mutation /\ ~last_op.saved) => file = last_op.was.file

\* an add_message whose save failed has left the previous snapshot, which
\* holds an older history of the user, in the file
C26_Witness ==
    /\ last_op.op = "add"
    /\ ~last_op.saved
    /\ Readable(file)
    /\ LoadGet(file, last_op.user_id) # <<>>
    /\ LoadGet(file, last_op.user_id) # CacheGet(last_op.user_id)

\* C28: a store built on a file that is missing, is not JSON or fails while
\* a user is loaded has no user at all.
C28_UnreadableStoreIsEmpty ==
    (last_op.op = "load" /\ ~Readable(file)) =>
        cache = <<>> /\ token_cnt = <<>>

\* a store was built on the file whose second user cannot be loaded: the
\* first user, loaded before the exception, is not in the store
C28_Witness ==
    /\ last_op.op = "load"
    /\ file = BadEntryFile
    /\ HasContent(file.data[Str(1)])
    /\ 1 \notin DOMAIN cache

\* C29: no step of a caller on what get_user_messages returned to it
\* changes what get_user_messages returns for any user.
C29_DefensiveCopy ==
    [][last_op'.op \in {"caller_entry", "caller_list"} =>
          \A u \in Users :
              (IF u \in DOMAIN cache' THEN cache'[u] ELSE <<>>) = CacheGet(u)]_vars

\* C33: of two different requests on the queue exactly one is ordered
\* before the other by QueuedRequest.__lt__.
C33_StrictTotalOrder ==
    \A a, b \in Queued : a # b => (Lt(a, b) <=> ~Lt(b, a))

\* C34: in the state a stop() returns in, every worker task is done.
C34_NoWorkerAfterStop ==
    [][\A s \in 1..Len(stops') :
          StopReturns(s) =>
              \A w \in 1..Len(tasks') : tasks'[w].pc = "done"]_vars

\* C35: the cached token total of every user is the sum of the token counts
\* of the user's stored entries, and the two dicts have the same users.
C35_CachedTotalExact ==
    /\ DOMAIN token_cnt = DOMAIN cache
    /\ \A u \in DOMAIN cache : token_cnt[u] = SumTokens(cache[u])

\* an add_message has evicted by the entry cap and by the token cap and
\* left entries whose tokens the cached total counts
C35_Witness ==
    /\ last_op.op = "add"
    /\ last_op.by_count > 0
    /\ last_op.by_tokens > 0
    /\ cache[last_op.user_id] # <<>>
    /\ token_cnt[last_op.user_id] > 0

\* C36: an add_message of an entry with more tokens than MEMORY_MAX_TOKENS
\* leaves the user with an empty history and a token total of 0.
C36_OversizedEntryEmpties ==
    (last_op.op = "add"
        /\ TokenLen(last_op.msg.content) > MEMORY_MAX_TOKENS) =>
        /\ cache[last_op.user_id] = <<>>
        /\ token_cnt[last_op.user_id] = 0

\* an oversized entry was added to a history of two entries, which the
\* token cap evicted with it
C36_Witness ==
    /\ last_op.op = "add"
    /\ TokenLen(last_op.msg.content) > MEMORY_MAX_TOKENS
    /\ last_op.by_tokens = 3
    /\ cache[last_op.user_id] = <<>>

\* C37: the history add_message leaves is the list that
\* MongoDBStore._prune_messages returns for the old history with the new
\* entry appended and the same caps.
C37_SameAsMongoPrune ==
    last_op.op = "add" =>
        cache[last_op.user_id] =
            PruneMessages(Offered, MEMORY_MAX_PER_USER, MEMORY_MAX_TOKENS)

\* an add_message to a full history has evicted by both caps
C37_Witness ==
    /\ last_op.op = "add"
    /\ last_op.by_count = 1
    /\ last_op.by_tokens >= 1
    /\ Len(cache[last_op.user_id]) = MEMORY_MAX_PER_USER - last_op.by_tokens

\* C31: whatever the interleaving of the callback and the command handlers,
\* every call of add_message or clear_user has left the whole result of that
\* call: the history of the user is the longest fitting suffix of the
\* history the call found with the new entry (or is removed), no other
\* user's history differs from what the call found, every history is within
\* both caps with an exact total, and the file holds the cache.
C31_StoreCallsAtomic ==
    Mutation =>
        LET u == last_op.user_id
            was == last_op.was
        IN  /\ last_op.op = "add" => cache[u] = LongestFit(Offered)
            /\ last_op.op = "clear" => u \notin DOMAIN cache
            /\ \A v \in Users \ {u} :
                  /\ v \in DOMAIN cache <=> v \in DOMAIN was.cache
                  /\ v \in DOMAIN was.cache => cache[v] = was.cache[v]
            /\ \A v \in DOMAIN cache :
                  /\ Len(cache[v]) <= MEMORY_MAX_PER_USER
                  /\ SumTokens(cache[v]) <= MEMORY_MAX_TOKENS
                  /\ token_cnt[v] = SumTokens(cache[v])
            /\ file = Dumps(cache)

\* while the callback of a user waits for the provider, a command handler
\* has cleared the history of that user, which the prompt still shows
C31_Witness ==
    /\ dispatch.pc = "provider"
    /\ last_op.op = "clear"
    /\ last_op.user_id = dispatch.user_id
    /\ Len(dispatch.prompt) > 2
    /\ \E v \in DOMAIN cache : cache[v] # <<>>

\* C32: while the provider is being called the store has been called for
\* the user turn of the request (and by commands that clear); an assistant
\* entry is the last entry added only when the callback has ended with a
\* successful provider call, whose reply it is; after a call that failed or
\* raised the last store call is still the user turn or a clear.
C32_AssistantOnlyOnSuccess ==
    /\ dispatch.pc = "provider" =>
          /\ Mutation
          /\ last_op.op = "add" =>
                /\ last_op.user_id = dispatch.user_id
                /\ last_op.msg = UserTurn(dispatch.text)
                /\ cache[dispatch.user_id] = LongestFit(Offered)
    /\ (last_op.op = "add" /\ last_op.msg.role = "assistant") =>
          /\ dispatch.pc = "idle"
          /\ dispatch.outcome = "ok"
          /\ cache[last_op.user_id] = LongestFit(Offered)
    /\ (dispatch.pc = "idle" /\ dispatch.outcome = "ok") =>
          \/ last_op.op = "clear"
          \/ last_op.op = "add" /\ last_op.msg.role = "assistant"
    /\ (dispatch.pc = "idle" /\ dispatch.outcome \in {"failed", "raised"}) =>
          \/ last_op.op = "clear"
          \/ last_op.op = "add" /\ last_op.msg.role = "user"

\* a provider call has failed or raised and the history of the user ends
\* with the user turn of that request
C32_Witness ==
    /\ dispatch.pc = "idle"
    /\ dispatch.outcome \in {"failed", "raised"}
    /\ last_op.op = "add"
    /\ last_op.msg.role = "user"
    /\ last_op.user_id \in DOMAIN cache
    /\ cache[last_op.user_id] # <<>>
    /\ cache[last_op.user_id][Len(cache[last_op.user_id])] = last_op.msg

\* C38: the prompt built for a request is the system message of the user,
\* then the longest fitting suffix of the history found with the new user
\* turn appended, which is the history then stored, then the new user turn.
C38_PromptFromStoredHistory ==
    dispatch.pc = "provider" =>
        LET u == dispatch.user_id
            turn == UserTurn(dispatch.text)
        IN  /\ Len(dispatch.prompt) >= 2
            /\ dispatch.prompt[1] = SystemMessage(u)
            /\ dispatch.prompt[Len(dispatch.prompt)] = turn
            /\ last_op.op = "add" =>
                  /\ dispatch.prompt =
                        <<SystemMessage(u)>> \o LongestFit(Offered) \o <<turn>>
                  /\ dispatch.prompt =
                        <<SystemMessage(u)>> \o cache[u] \o <<turn>>

\* a prompt was built after the new user turn evicted an older entry and
\* stayed in the history itself
C38_Witness ==
    /\ dispatch.pc = "provider"
    /\ last_op.op = "add"
    /\ last_op.by_count + last_op.by_tokens > 0
    /\ Len(dispatch.prompt) > 3
    /\ dispatch.prompt[Len(dispatch.prompt) - 1] = UserTurn(dispatch.text)
====
